---- MODULE Spec2Model ----
(***************************************************************************)
(* tinykv: a single-file, page-oriented key/value store.                   *)
(*                                                                         *)
(* The model follows leaf_page.go (the leaf cell store over a 4096-byte    *)
(* buffer), buffer_pool.go (the page cache over the backing file) and the  *)
(* DB facade (OpenDB / Close / Set / Get).  Pages and the file are byte    *)
(* sequences; all header fields and length prefixes are little-endian      *)
(* 32-bit integers, encoded and decoded byte by byte.                      *)
(***************************************************************************)
EXTENDS Integers, Sequences, FiniteSets, Bags, TLC

VARIABLES
    file,      \* the bytes of the backing file (os.File contents)
    pages,     \* bufferPool.pages: a slot per page, NoPage or a leafPage
    dbState,   \* "none": no DB yet, "open": OpenDB returned, "closed": Close ran,
               \* "leaf": a leaf page on its own, outside any pool
    opens,     \* number of OpenDB calls so far (bounds the file's growth)
    last,      \* the last API call: its arguments and what it returned
    stored,    \* history: the bag of (key, value) pairs whose insertion returned nil
    held       \* a byte slice findCell returned, as its caller keeps it

vars == <<file, pages, dbState, opens, last, stored, held>>

----------------------------------------------------------------------------
(* Program constants *)

pageSize == 4096

pageKindUnallocated == 1
pageKindHeader == 2
pageKindLeaf == 3
pageKindInternal == 4

leafPageFirstCellOffset == 10

(* Bounds of the model *)

MaxOpens == 2
MaxCells == 4
BigLen == 2034
TailLen == 100
MaxPages == 2
MaxPoolCells == 1
MaxIterCells == 3
MaxTrackedCells == 2
MaxRaceSets == 2
MaxHeaderCells == 2


----------------------------------------------------------------------------
(* Byte-level helpers *)

Zeros(n) == [i \in 1..n |-> 0]

Fill(n, b) == [i \in 1..n |-> b]

\* uint32(x).  TLC's integers are 32-bit signed and it stops with an overflow
\* error rather than wrap, so every value the model computes is exact: a uint32
\* below 2^31 is itself, and a negative operand (whose uint32 is 2^32 + x, at
\* least 2^31) makes the evaluation stop instead of yielding a wrong number.
ToU32(x) == IF x >= 0 THEN x ELSE x + 2147483647 + 2147483647 + 2

\* binary.LittleEndian.Uint32(b[off:off+4])
Uint32(b, off) ==
    b[off + 1] + 256 * b[off + 2] + 65536 * b[off + 3] + 16777216 * b[off + 4]

\* the four bytes binary.LittleEndian.PutUint32 writes for uint32(v); for a
\* negative v floor division and modulus give the two's complement bytes
PutUint32Bytes(v) ==
    <<v % 256, (v \div 256) % 256, (v \div 65536) % 256, (v \div 16777216) % 256>>

\* b[lo:hi]
Slice(b, lo, hi) == SubSeq(b, lo + 1, hi)

\* copy(b[off:off+len(src)], src): src is read before anything is written
Copy(b, off, src) ==
    SubSeq(b, 1, off) \o src \o SubSeq(b, off + Len(src) + 1, Len(b))

\* binary.LittleEndian.PutUint32(b[off:off+4], v)
PutUint32(b, off, v) == Copy(b, off, PutUint32Bytes(v))

RECURSIVE CompareFrom(_, _, _)
CompareFrom(a, b, i) ==
    IF i > Len(a) /\ i > Len(b) THEN 0
    ELSE IF i > Len(a) THEN -1
    ELSE IF i > Len(b) THEN 1
    ELSE IF a[i] < b[i] THEN -1
    ELSE IF a[i] > b[i] THEN 1
    ELSE CompareFrom(a, b, i + 1)

\* bytes.Compare(a, b): byte-wise lexicographic, a proper prefix is smaller
Compare(a, b) == CompareFrom(a, b, 1)

\* bytes.Equal(a, b)
BytesEqual(a, b) == a = b

----------------------------------------------------------------------------
(* leaf_page.go: header accessors *)

getKind(data) == data[1]

isRoot(data) == data[2] = 1

setIsRoot(data, root) == [data EXCEPT ![2] = IF root THEN 1 ELSE 0]

\* int32(binary.LittleEndian.Uint32(data[2:6]))
getParentIndex(data) ==
    data[3] + 256 * data[4] + 65536 * data[5]
        + 16777216 * (IF data[6] >= 128 THEN data[6] - 256 ELSE data[6])

\* binary.LittleEndian.PutUint32(data[2:6], uint32(parentIndex))
setParentIndex(data, parentIndex) == PutUint32(data, 2, parentIndex)

getNumCells(data) == Uint32(data, 6)

setNumCells(data, numCells) == PutUint32(data, 6, ToU32(numCells))

\* Faulty variant: the new page is left without its parent index of -1.
newLeafData_NoParent ==
    setIsRoot(setNumCells([Zeros(pageSize) EXCEPT ![1] = pageKindLeaf], 0), TRUE)

\* newLeafPage(index, nil): a zeroed buffer with the leaf header written
newLeafData ==
    setParentIndex(
        setIsRoot(
            setNumCells([Zeros(pageSize) EXCEPT ![1] = pageKindLeaf], 0),
            TRUE),
        -1)

\* newLeafPage(index, data)
newLeafPage(index, data) ==
    [index |-> index,
     cachedData |-> IF data = <<>> THEN newLeafData ELSE data,
     loaded |-> TRUE]

----------------------------------------------------------------------------
(* leaf_page.go: iteration over the cells *)

\* Faulty variant: addCell stops at the first key greater than or equal to `key`.
Callback_GreaterOrEqual(mode, key, cell) ==
    CASE mode = "all" -> TRUE
      [] mode = "greater" -> ~(Compare(cell.key, key) >= 0)
      [] mode = "equal" -> ~BytesEqual(key, cell.key)

\* The three callbacks the code passes to iterCells; TRUE means "continue".
\*   "all"     getFreeSpace:  always continue
\*   "greater" addCell:       stop at the first key greater than `key`
\*   "equal"   findCell:      stop at the first key equal to `key`
Callback(mode, key, cell) ==
    CASE mode = "all" -> TRUE
      [] mode = "greater" -> ~(Compare(cell.key, key) = 1)
      [] mode = "equal" -> ~BytesEqual(key, cell.key)

\* One turn of the loop body of iterCells: the cell that starts at `offset`,
\* given the two length prefixes read on the way.
CellOf(data, offset, keyLen, valueLen) ==
    [key |-> Slice(data, offset + 4, offset + 4 + keyLen),
     value |-> Slice(data, offset + 4 + keyLen + 4, offset + 4 + keyLen + 4 + valueLen),
     offset |-> offset,
     end |-> ToU32(offset + 4 + keyLen + 4 + valueLen)]

CellAfterKey(data, offset, keyLen) ==
    CellOf(data, offset, keyLen, Uint32(data, ToU32(offset + 4 + keyLen)))

ReadCell(data, offset) == CellAfterKey(data, offset, Uint32(data, offset))

RECURSIVE IterFrom(_, _, _, _, _)

\* The end of one turn: hand the cell to the callback, go on or break.
IterStep(data, i, mode, key, cell) ==
    IF Callback(mode, key, cell)
    THEN <<cell>> \o IterFrom(data, i + 1, cell.end, mode, key)
    ELSE <<cell>>

\* The loop of iterCells from cell number i at `offset`: the cells visited.
IterFrom(data, i, offset, mode, key) ==
    IF ~(i < getNumCells(data)) THEN <<>>
    ELSE IterStep(data, i, mode, key, ReadCell(data, offset))

IterResult(visited, mode, key) ==
    [visited |-> visited,
     stopped |-> Len(visited) > 0 /\ ~Callback(mode, key, visited[Len(visited)]),
     offset |-> IF Len(visited) = 0 THEN leafPageFirstCellOffset
                ELSE visited[Len(visited)].end]

\* iterCells(callback): the cells handed to the callback, in order, whether the
\* callback stopped the loop, and the offset the function returns.
iterCells(data, mode, key) ==
    IterResult(IterFrom(data, 0, leafPageFirstCellOffset, mode, key), mode, key)

getFreeSpace(data) == ToU32(pageSize - iterCells(data, "all", <<>>).offset)

----------------------------------------------------------------------------
(* leaf_page.go: addCell and findCell *)

nil == <<-1>>

\* Faulty variant: the header is not counted, so a cell up to ten bytes too long passes.
NoRoom_IgnoresHeader(requiredSpace, freeSpace) ==
    requiredSpace > freeSpace + leafPageFirstCellOffset

\* Faulty variant: a cell that needs exactly the free space is refused.
NoRoom_OrEqual(requiredSpace, freeSpace) == requiredSpace >= freeSpace

\* The capacity test (line 108).
NoRoom(requiredSpace, freeSpace) == requiredSpace > freeSpace

\* Faulty variant: the new cell always goes before the first cell.
OffsetFrom_First(it, freeSpace) == leafPageFirstCellOffset

\* The offset the second iterCells of addCell leaves (lines 113-122).
OffsetFrom(it, freeSpace) ==
    IF it.stopped THEN it.visited[Len(it.visited)].offset
    ELSE ToU32(pageSize - freeSpace)

\* Faulty variant: the new cell always goes after the last one.
InsertOffset_Append(data, key, freeSpace) == ToU32(pageSize - freeSpace)

\* The insertion point: the first cell with a greater key, else the end of the cells.
InsertOffset(data, key, freeSpace) ==
    OffsetFrom(iterCells(data, "greater", key), freeSpace)

\* Faulty variant: the cells after the insertion point are not moved.
ShiftRight_None(data, offset, requiredSpace, rhsSize) == data

\* The shift of the cells at and after the insertion point (lines 124-129).
ShiftRight(data, offset, requiredSpace, rhsSize) ==
    IF rhsSize > 0
    THEN Copy(data, offset + requiredSpace, Slice(data, offset, offset + rhsSize))
    ELSE data

\* The four writes of the new cell (lines 131-142).
WriteCell(data, offset, key, value) ==
    Copy(PutUint32(Copy(PutUint32(data, offset, ToU32(Len(key))),
                        offset + 4, key),
                   offset + 4 + Len(key), ToU32(Len(value))),
         offset + 4 + Len(key) + 4, value)

\* Faulty variant: the cell count is incremented twice.
IncNumCells_Twice(data) == setNumCells(data, getNumCells(data) + 2)

\* Faulty variant: the cell count is not incremented.
IncNumCells_Skip(data) == data

\* p.setNumCells(p.getNumCells() + 1) (line 144)
IncNumCells(data) == setNumCells(data, getNumCells(data) + 1)

\* addCell once the insertion point is known (lines 124-146).
InsertCell(data, key, value, requiredSpace, freeSpace, offset) ==
    IncNumCells(
        WriteCell(
            ShiftRight(data, offset, requiredSpace,
                       ToU32(ToU32(pageSize - offset) - freeSpace)),
            offset, key, value))

\* addCell after its first two lines.
AddCellWith(data, key, value, requiredSpace, freeSpace) ==
    IF NoRoom(requiredSpace, freeSpace)
    THEN [err |-> "space", data |-> data]
    ELSE [err |-> "nil",
          data |-> InsertCell(data, key, value, requiredSpace, freeSpace,
                              InsertOffset(data, key, freeSpace))]

\* addCell(key, value): the error returned and the buffer afterwards
addCell(data, key, value) ==
    AddCellWith(data, key, value, ToU32(Len(key) + Len(value) + 8), getFreeSpace(data))

\* Faulty variant: findCell copies the key of the cell instead of its value.
FoundValue_Key(it) == IF it.stopped THEN it.visited[Len(it.visited)].key ELSE nil

\* Faulty variant: findCell keeps the value of the last cell visited, matching or not.
FoundValue_Last(it) ==
    IF Len(it.visited) > 0 THEN it.visited[Len(it.visited)].value ELSE nil

\* The value findCell's callback leaves in foundValue.
FoundValue(it) == IF it.stopped THEN it.visited[Len(it.visited)].value ELSE nil

\* findCell(key): a copy of the value of the first cell with that key, or nil
findCell(data, key) == FoundValue(iterCells(data, "equal", key))

\* A byte slice as a caller holds it: either a buffer of its own (`bytes`) or a
\* window of `size` bytes at `offset` of the page buffer it was cut from.
NilBuffer == [alias |-> FALSE, bytes |-> nil, offset |-> 0, size |-> 0]

\* Faulty variant: findCell hands out entryValue itself, a window of the page.
OwnCopy_Alias(cell) ==
    [alias |-> TRUE, bytes |-> <<>>,
     offset |-> cell.end - Len(cell.value), size |-> Len(cell.value)]

\* foundValue = make([]byte, len(entryValue)); copy(foundValue, entryValue)
\* (lines 153-154): a new buffer with the bytes of the value
OwnCopy(cell) ==
    [alias |-> FALSE, bytes |-> cell.value, offset |-> 0, size |-> Len(cell.value)]

\* The slice findCell's callback leaves in foundValue.
FoundBuffer(it) == IF it.stopped THEN OwnCopy(it.visited[Len(it.visited)]) ELSE NilBuffer

\* findCell(key), the slice returned
findCellBuffer(data, key) == FoundBuffer(iterCells(data, "equal", key))

\* The bytes a slice shows when read, the page buffer being `data`.
BytesOf(buf, data) ==
    IF buf.alias THEN Slice(data, buf.offset, buf.offset + buf.size) ELSE buf.bytes

\* buf[i] = b by the holder of the slice: the slice and the page buffer afterwards.
StoreByte(buf, data, i, b) ==
    IF buf.alias
    THEN [buf |-> buf, data |-> [data EXCEPT ![buf.offset + i + 1] = b]]
    ELSE [buf |-> [buf EXCEPT !.bytes[i + 1] = b], data |-> data]

\* What a caller keeps of a findCell: the key asked for, the slice returned, and
\* for the record the bytes it showed and the offset the cell had at that time.
NoHeld == [key |-> <<>>, buf |-> NilBuffer, orig |-> nil, cellOffset |-> 0, written |-> FALSE]

----------------------------------------------------------------------------
(* buffer_pool.go *)

\* a nil entry of bufferPool.pages
NoPage == [index |-> 0, cachedData |-> <<>>, loaded |-> FALSE]

\* getPageCount(): uint32(fileInfo.Size()) / pageSize
getPageCount(f) == ToU32(Len(f)) \div pageSize

\* file.WriteAt(b, off): a write that starts past the end of the file leaves
\* zeros in between
WriteAt(f, b, off) ==
    Copy(IF Len(f) < off THEN f \o Zeros(off - Len(f)) ELSE f, off, b)

\* file.ReadAt(buf, off) with len(buf) = pageSize: an error unless the whole
\* window lies inside the file
ReadAt(f, off) ==
    IF off + pageSize <= Len(f)
    THEN [err |-> "nil", data |-> Slice(f, off, off + pageSize)]
    ELSE [err |-> "EOF", data |-> <<>>]

\* The outcomes the operating system has for a read or a write of the file:
\* "nil" lets the call through, "EIO" fails it and transfers nothing.
IOErrors == {"nil", "EIO"}

\* file.ReadAt under the outcome rerr
ReadAtIO(f, off, rerr) ==
    IF rerr # "nil" THEN [err |-> rerr, data |-> <<>>] ELSE ReadAt(f, off)

\* newBufferPool(path): a nil slot per page of the file
newBufferPool(f) == [i \in 1..getPageCount(f) |-> NoPage]

\* Faulty variant: every page is written at the start of the file.
WritePage_AtZero(f, data, off, werr) ==
    [err |-> werr,
     file |-> IF werr = "nil" THEN WriteAt(f, data, 0) ELSE f,
     writes |-> <<[offset |-> off, size |-> Len(data)]>>]

\* The WriteAt of flushPage (line 111) under the outcome werr: the error, the
\* file afterwards and the write issued.
WritePage(f, data, off, werr) ==
    [err |-> werr,
     file |-> IF werr = "nil" THEN WriteAt(f, data, off) ELSE f,
     writes |-> <<[offset |-> off, size |-> Len(data)]>>]

\* flushPage(pageIndex) when the write has the outcome werr
flushPageIO(ps, f, pageIndex, werr) ==
    IF ~ps[pageIndex + 1].loaded
    THEN [err |-> "unloaded", file |-> f, writes |-> <<>>]
    ELSE WritePage(f, ps[pageIndex + 1].cachedData, ToU32(pageIndex * pageSize), werr)

\* flushPage(pageIndex): the error returned and the file after the call
flushPage(ps, f, pageIndex) == flushPageIO(ps, f, pageIndex, "nil")

\* Faulty variant: addPage drops the pages that were loaded before.
AddPageResult_Evict(ps, page, fl) ==
    [err |-> "nil",
     pages |-> [i \in 1..Len(ps) |-> IF i = Len(ps) THEN ps[i] ELSE NoPage],
     file |-> fl.file, page |-> page, writes |-> fl.writes]

\* What addPage returns (line 66): the page and a nil error, whatever flushPage
\* returned.
AddPageResult(ps, page, fl) ==
    [err |-> "nil", pages |-> ps, file |-> fl.file, page |-> page, writes |-> fl.writes]

\* addPage() from the append on: the new page takes the last slot and the slot
\* numbered page.index is flushed
AppendAndFlushIO(ps, f, page, werr) ==
    AddPageResult(Append(ps, page), page,
                  flushPageIO(Append(ps, page), f, page.index, werr))

AppendAndFlush(ps, f, page) == AppendAndFlushIO(ps, f, page, "nil")

\* addPage() when the write has the outcome werr
addPageIO(ps, f, werr) ==
    AppendAndFlushIO(ps, f, newLeafPage(getPageCount(f), <<>>), werr)

\* addPage(): a fresh leaf page whose index is the file's page count
addPage(ps, f) == addPageIO(ps, f, "nil")

\* The dispatch on the kind tag of a page read from the file (lines 85-97).
\* Only a leaf page is built; the header, unallocated and internal cases and
\* the default case all panic.
LoadKind(pageIndex, pageData) ==
    CASE getKind(pageData) = pageKindLeaf ->
            [err |-> "nil", page |-> newLeafPage(pageIndex, pageData)]
      [] getKind(pageData) \in {pageKindHeader, pageKindUnallocated, pageKindInternal} ->
            [err |-> "panic", page |-> NoPage]
      [] OTHER -> [err |-> "panic", page |-> NoPage]

\* The end of getPage for a slot that was nil (lines 99-102).
Loaded(ps, pageIndex, k) ==
    IF k.err # "nil" THEN [err |-> k.err, pages |-> ps, page |-> NoPage, reads |-> 1]
    ELSE [err |-> "nil",
          pages |-> [ps EXCEPT ![pageIndex + 1] = k.page],
          page |-> k.page,
          reads |-> 1]

\* getPage for a slot that is nil, after the read (lines 81-99).
LoadPage(ps, pageIndex, rd) ==
    IF rd.err # "nil" THEN [err |-> rd.err, pages |-> ps, page |-> NoPage, reads |-> 1]
    ELSE Loaded(ps, pageIndex, LoadKind(pageIndex, rd.data))

\* Faulty variant: an index past the last slot makes the pool grow by a slot.
Missing_Grow(ps, pageIndex) ==
    [err |-> "index", pages |-> Append(ps, NoPage), page |-> NoPage, reads |-> 0]

\* Faulty variant: an index past the last slot makes getPage panic.
Missing_Panic(ps, pageIndex) ==
    [err |-> "panic", pages |-> ps, page |-> NoPage, reads |-> 0]

\* getPage of an index that is no slot of the pool (lines 70-73).
Missing(ps, pageIndex) ==
    [err |-> "index", pages |-> ps, page |-> NoPage, reads |-> 0]

\* Faulty variant: a loaded slot is read from the file again.
Cached_Reload(ps, f, pageIndex) ==
    LoadPage(ps, pageIndex, ReadAt(f, ToU32(pageIndex * pageSize)))

\* getPage of a slot that is loaded (line 102).
Cached(ps, f, pageIndex) ==
    [err |-> "nil", pages |-> ps, page |-> ps[pageIndex + 1], reads |-> 0]

\* getPage(pageIndex) when a read has the outcome rerr: the error, the slots
\* after the call, the page returned and the number of reads of the file
getPageIO(ps, f, pageIndex, rerr) ==
    IF Len(ps) <= pageIndex
    THEN Missing(ps, pageIndex)
    ELSE IF ~ps[pageIndex + 1].loaded
    THEN LoadPage(ps, pageIndex, ReadAtIO(f, ToU32(pageIndex * pageSize), rerr))
    ELSE Cached(ps, f, pageIndex)

\* getPage(pageIndex)
getPage(ps, f, pageIndex) == getPageIO(ps, f, pageIndex, "nil")

RECURSIVE FlushFromIO(_, _, _, _)

\* Faulty variant: the slots are flushed from the last to the first.
FlushNext_Reverse(fl, rest) == [file |-> rest.file, writes |-> rest.writes \o fl.writes]

\* The writes of one flush, followed by those of the rest of the loop.
FlushNext(fl, rest) == [file |-> rest.file, writes |-> fl.writes \o rest.writes]

\* One turn of the loop of close(): the slot i has been flushed with result fl.
FlushStep(ps, fl, i, failing) == FlushNext(fl, FlushFromIO(ps, fl.file, i + 1, failing))

\* The loop of close() from slot i on, the writes of the slots in `failing`
\* failing: the file afterwards and the writes issued, in order.  The error of
\* flushPage is dropped.
FlushFromIO(ps, f, i, failing) ==
    IF i >= Len(ps) THEN [file |-> f, writes |-> <<>>]
    ELSE IF ps[i + 1].loaded
    THEN FlushStep(ps, flushPageIO(ps, f, i, IF i \in failing THEN "EIO" ELSE "nil"),
                   i, failing)
    ELSE FlushFromIO(ps, f, i + 1, failing)

FlushFrom(ps, f, i) == FlushFromIO(ps, f, i, {}).file

\* Faulty variant: close() does not flush.
closeFile_NoFlush(ps, f) == f

\* close(): flush every loaded page in index order; the file afterwards
closeFile(ps, f) == FlushFrom(ps, f, 0)

----------------------------------------------------------------------------
(* The DB facade, as functions of the pool's slots and the file *)

\* Faulty variant: Set does not look for the key first.
IsFound_Never(foundValue) == FALSE

\* The test `foundValue != nil` of DB.Set
IsFound(foundValue) == foundValue # nil

\* Faulty variant: Set stores the cell in the page of the last slot.
SetOnPage_LastSlot(g, key, value) ==
    IF g.err # "nil" THEN [err |-> g.err, pages |-> g.pages]
    ELSE IF IsFound(findCell(g.page.cachedData, key))
    THEN [err |-> "panic", pages |-> g.pages]
    ELSE [err |-> addCell(g.page.cachedData, key, value).err,
          pages |-> [g.pages EXCEPT ![Len(g.pages)].cachedData =
                        addCell(g.pages[Len(g.pages)].cachedData, key, value).data]]

\* DB.Set once getPage(0) has returned
SetOnPage(g, key, value) ==
    IF g.err # "nil" THEN [err |-> g.err, pages |-> g.pages]
    ELSE IF IsFound(findCell(g.page.cachedData, key))
    THEN [err |-> "panic", pages |-> g.pages]
    ELSE [err |-> addCell(g.page.cachedData, key, value).err,
          pages |-> [g.pages EXCEPT ![1].cachedData =
                        addCell(g.page.cachedData, key, value).data]]

\* DB.Set(key, value): the error returned and the slots afterwards.  A panic
\* unwinds out of Set and leaves the DB object as it is; err = "panic" records it.
DBSet(ps, f, key, value) == SetOnPage(getPage(ps, f, 0), key, value)

\* Faulty variant: Set flushes page 0 after storing the cell.
FileAfterSet_WriteThrough(ps, f) ==
    IF Len(ps) >= 1 /\ ps[1].loaded THEN flushPage(ps, f, 0).file ELSE f

\* The file after DB.Set, the slots being ps: Set calls getPage, findCell and
\* addCell, none of which writes to the file.
FileAfterSet(ps, f) == f

\* DB.Get once getPage(0) has returned
GetOnPage(g, key) ==
    IF g.err # "nil" THEN [out |-> nil, err |-> g.err, pages |-> g.pages]
    ELSE [out |-> findCell(g.page.cachedData, key), err |-> "nil", pages |-> g.pages]

\* DB.Get(key): the value and the error returned, and the slots afterwards
DBGet(ps, f, key) == GetOnPage(getPage(ps, f, 0), key)

\* OpenDB(path): newBufferPool, then addPage
DBOpen(f) == addPage(newBufferPool(f), f)

----------------------------------------------------------------------------
(* The inputs of the model *)

Keys == {<<1>>, <<1, 2>>, <<2>>}

Values == {<<7>>, Fill(BigLen, 9)}

InitialFiles == {<<>>, Zeros(TailLen)}

Call(op, key, value, err, out) ==
    [op |-> op, key |-> key, value |-> value, err |-> err, out |-> out]

Pair(key, value) == SetToBag({<<key, value>>})

----------------------------------------------------------------------------
(* The store: OpenDB, Close, Set and Get over a file *)

Init ==
    /\ file \in InitialFiles
    /\ pages = <<>>
    /\ dbState = "none"
    /\ opens = 0
    /\ last = Call("none", <<>>, <<>>, "nil", nil)
    /\ stored = EmptyBag
    /\ held = NoHeld

OpenDB ==
    /\ dbState \in {"none", "closed"}
    /\ opens < MaxOpens
    /\ \E r \in {DBOpen(file)} :
          /\ pages' = r.pages
          /\ file' = r.file
          /\ last' = Call("OpenDB", <<>>, <<>>, r.err, nil)
    /\ dbState' = "open"
    /\ opens' = opens + 1
    /\ UNCHANGED <<stored, held>>

Close ==
    /\ dbState = "open"
    /\ file' = closeFile(pages, file)
    /\ pages' = <<>>
    /\ dbState' = "closed"
    /\ last' = Call("Close", <<>>, <<>>, "nil", nil)
    /\ UNCHANGED <<opens, stored, held>>

Set(key, value) ==
    /\ dbState \in {"open", "closed"}
    /\ \E r \in {DBSet(pages, file, key, value)} :
          /\ pages' = r.pages
          /\ last' = Call("Set", key, value, r.err, nil)
          /\ stored' = IF r.err = "nil" THEN stored (+) Pair(key, value) ELSE stored
          /\ file' = FileAfterSet(r.pages, file)
    /\ UNCHANGED <<dbState, opens, held>>

Get(key) ==
    /\ dbState \in {"open", "closed"}
    /\ \E r \in {DBGet(pages, file, key)} :
          /\ pages' = r.pages
          /\ last' = Call("Get", key, <<>>, r.err, r.out)
    /\ UNCHANGED <<file, dbState, opens, stored, held>>

Next ==
    \/ OpenDB
    \/ Close
    \/ \E key \in Keys, value \in Values : Set(key, value)
    \/ \E key \in Keys : Get(key)

Spec == Init /\ [][Next]_vars

----------------------------------------------------------------------------
(* A leaf page on its own: addCell and findCell called directly *)

InitLeaf ==
    /\ file = <<>>
    /\ pages = <<newLeafPage(0, <<>>)>>
    /\ dbState = "leaf"
    /\ opens = 0
    /\ last = Call("none", <<>>, <<>>, "nil", nil)
    /\ stored = EmptyBag
    /\ held = NoHeld

AddCell(key, value) ==
    /\ dbState = "leaf"
    /\ BagCardinality(stored) < MaxCells
    /\ \E r \in {addCell(pages[1].cachedData, key, value)} :
          /\ pages' = [pages EXCEPT ![1].cachedData = r.data]
          /\ last' = Call("addCell", key, value, r.err, nil)
          /\ stored' = IF r.err = "nil" THEN stored (+) Pair(key, value) ELSE stored
    /\ UNCHANGED <<file, dbState, opens, held>>

FindCell(key) ==
    /\ dbState = "leaf"
    /\ last' = Call("findCell", key, <<>>, "nil", findCell(pages[1].cachedData, key))
    /\ UNCHANGED <<file, pages, dbState, opens, stored, held>>

NextLeaf ==
    \/ \E key \in Keys, value \in Values : AddCell(key, value)
    \/ \E key \in Keys : FindCell(key)

LeafSpec == InitLeaf /\ [][NextLeaf]_vars

----------------------------------------------------------------------------
(* A leaf page and a caller that keeps the slice findCell returned, while more
   cells are added, and writes into it *)

\* The record the caller keeps of findCell(key) having returned buf.
Kept(key, buf, it, data) ==
    IF ~it.stopped THEN NoHeld
    ELSE [key |-> key, buf |-> buf, orig |-> BytesOf(buf, data),
          cellOffset |-> it.visited[Len(it.visited)].offset, written |-> FALSE]

KeepCell(key) ==
    /\ dbState = "leaf"
    /\ \E data \in {pages[1].cachedData} :
          /\ held' = Kept(key, findCellBuffer(data, key), iterCells(data, "equal", key), data)
          /\ last' = Call("findCell", key, <<>>, "nil", findCell(data, key))
    /\ UNCHANGED <<file, pages, dbState, opens, stored>>

\* The bytes a caller may write into a slice it holds.
WrittenBytes == {255}

\* The caller overwrites the first byte of the slice it holds.
WriteHeld(b) ==
    /\ dbState = "leaf"
    /\ held.orig # nil
    /\ ~held.written
    /\ held.buf.size > 0
    /\ \E r \in {StoreByte(held.buf, pages[1].cachedData, 0, b)} :
          /\ pages' = [pages EXCEPT ![1].cachedData = r.data]
          /\ held' = [held EXCEPT !.buf = r.buf, !.written = TRUE]
    /\ last' = Call("write", held.key, <<b>>, "nil", nil)
    /\ UNCHANGED <<file, dbState, opens, stored>>

NextCaller ==
    \/ \E key \in Keys, value \in Values : AddCell(key, value)
    \/ \E key \in Keys : KeepCell(key)
    \/ \E b \in WrittenBytes : WriteHeld(b)

CallerSpec == InitLeaf /\ [][NextCaller]_vars

----------------------------------------------------------------------------
(* iterCells turn by turn: a leaf page, and one iteration at a time running
   over it, between calls of addCell *)

\* The state of a running iterCells: the callback (mode and key), the loop
\* counter, the offset, the cells handed to the callback so far, and whether
\* the loop has been left.
Iteration(mode, key, i, offset, visited, done) ==
    [op |-> "iter", mode |-> mode, key |-> key, i |-> i, offset |-> offset,
     visited |-> visited, done |-> done]

\* Faulty variant: the loop takes one turn more than there are cells.
More_OneExtra(data, it) == it.i <= getNumCells(data)

\* The loop condition i < p.getNumCells() (line 84).
More(data, it) == it.i < getNumCells(data)

\* One turn of the loop (lines 85-99): the cell read at the offset goes to the
\* callback; the loop goes on with the next cell or is left by break.
Turn(it, cell) ==
    Iteration(it.mode, it.key,
              IF Callback(it.mode, it.key, cell) THEN it.i + 1 ELSE it.i,
              cell.end, Append(it.visited, cell),
              ~Callback(it.mode, it.key, cell))

\* The next state of a running iterCells over the buffer data.
IterTurn(data, it) ==
    IF More(data, it) THEN Turn(it, ReadCell(data, it.offset))
    ELSE Iteration(it.mode, it.key, it.i, it.offset, it.visited, TRUE)

\* No iteration is running.
IterIdle == IF last.op = "iter" THEN last.done ELSE TRUE

\* The callbacks iterCells is called with.
IterCalls == {<<"all", <<>>>>} \cup {<<mode, key>> : mode \in {"greater", "equal"}, key \in Keys}

\* offset := uint32(10); i := uint32(0) (lines 83-84)
StartIter(mode, key) ==
    /\ dbState = "leaf"
    /\ IterIdle
    /\ last' = Iteration(mode, key, 0, leafPageFirstCellOffset, <<>>, FALSE)
    /\ UNCHANGED <<file, pages, dbState, opens, stored, held>>

StepIter ==
    /\ dbState = "leaf"
    /\ ~IterIdle
    /\ last' = IterTurn(pages[1].cachedData, last)
    /\ UNCHANGED <<file, pages, dbState, opens, stored, held>>

\* addCell, called when no iteration is running.
AddCellIdle(key, value) ==
    /\ IterIdle
    /\ BagCardinality(stored) < MaxIterCells
    /\ AddCell(key, value)

NextIter ==
    \/ \E c \in IterCalls : StartIter(c[1], c[2])
    \/ StepIter
    \/ \E key \in Keys, value \in Values : AddCellIdle(key, value)

IterSpec == InitLeaf /\ [][NextIter]_vars

----------------------------------------------------------------------------
(* The two earlier revisions of the leaf page that keep the free space instead
   of counting it on every call: one keeps it in the page header (bytes 8..12),
   one in a field of the page struct.  Both have a 16-byte header with the
   cell count at byte 12. *)

leafPageNumCellsOffset == 12

trackedFirstCellOffset == 16

leafPageDefaultFreeSpace == pageSize - trackedFirstCellOffset

\* Used by the struct-field revision for the size of a fresh buffer; its
\* definition is not among the sources, the documented page size is taken.
defaultPageSize == pageSize

Revisions == {"headerField", "structField"}

getNumCellsTracked(data) == Uint32(data, leafPageNumCellsOffset)

setNumCellsTracked(data, numCells) == PutUint32(data, leafPageNumCellsOffset, ToU32(numCells))

setFreeSpace(data, freeSpace) == PutUint32(data, 8, freeSpace)

getLeafNodeCellSize(keyLen, valueLen) == ToU32(ToU32(keyLen + valueLen) + 8)

\* leafCellIterator.hasNext
hasNext(data, currentCell) == currentCell < getNumCellsTracked(data)

\* leafCellIterator.next: the first call starts at the first cell.
next(data, currentCell, offset) ==
    ReadCell(data, IF currentCell = 0 THEN trackedFirstCellOffset ELSE offset)

\* A fresh buffer of the header-field revision.
newHeaderFieldData ==
    setFreeSpace(
        PutUint32(
            setIsRoot(
                setNumCellsTracked([Zeros(pageSize) EXCEPT ![1] = pageKindLeaf], 0),
                TRUE),
            4, -1),
        leafPageDefaultFreeSpace)

\* newLeafPage of the header-field revision: a loaded buffer is taken as it is.
newLeafPageHeaderField(data) ==
    [data |-> IF data = nil THEN newHeaderFieldData ELSE data]

\* getFreeSpace of the header-field revision
getFreeSpaceHeaderField(p) == Uint32(p.data, 8)

RECURSIVE SeekHeaderField(_, _, _, _, _)

SeekStepHeaderField(data, key, currentCell, cell, offset) ==
    IF Compare(cell.key, key) = 1 THEN cell.offset
    ELSE SeekHeaderField(data, key, currentCell + 1, cell.end, offset)

\* The loop of addCell in the header-field revision: the offset of the first
\* cell with a greater key, else the offset the loop was entered with.
SeekHeaderField(data, key, currentCell, itOffset, offset) ==
    IF ~hasNext(data, currentCell) THEN offset
    ELSE SeekStepHeaderField(data, key, currentCell, next(data, currentCell, itOffset), offset)

InsertHeaderField(data, key, value, requiredSpace, freeSpace, offset) ==
    [data |->
        setNumCellsTracked(
            setFreeSpace(
                WriteCell(
                    ShiftRight(data, offset, requiredSpace,
                               ToU32(ToU32(pageSize - offset) - freeSpace)),
                    offset, key, value),
                ToU32(freeSpace - requiredSpace)),
            getNumCellsTracked(data) + 1)]

AddCellHeaderFieldWith(p, key, value, requiredSpace, freeSpace) ==
    IF requiredSpace > freeSpace
    THEN [err |-> "space", page |-> p, freeSpace |-> freeSpace]
    ELSE [err |-> "nil",
          page |-> InsertHeaderField(p.data, key, value, requiredSpace, freeSpace,
                       SeekHeaderField(p.data, key, 0, 0, ToU32(pageSize - freeSpace))),
          freeSpace |-> freeSpace]

\* addCell of the header-field revision: the error, the page afterwards and
\* the free space the call read.
addCellHeaderField(p, key, value) ==
    AddCellHeaderFieldWith(p, key, value, ToU32(Len(key) + Len(value) + 8),
                           getFreeSpaceHeaderField(p))

\* A fresh buffer of the struct-field revision (the parent index is at byte 8).
newStructFieldData ==
    PutUint32(
        setIsRoot(
            setNumCellsTracked([Zeros(defaultPageSize) EXCEPT ![1] = pageKindLeaf], 0),
            TRUE),
        8, -1)

RECURSIVE pageSizeTaken(_, _, _, _)

pageSizeTakenStep(data, currentCell, cell) ==
    pageSizeTaken(data, currentCell + 1, cell.end,
                  ToU32(cell.offset + getLeafNodeCellSize(Len(cell.key), Len(cell.value))))

\* The loop of newLeafPage in the struct-field revision.
pageSizeTaken(data, currentCell, itOffset, taken) ==
    IF ~hasNext(data, currentCell) THEN taken
    ELSE pageSizeTakenStep(data, currentCell, next(data, currentCell, itOffset))

InitialFreeSpace(data) ==
    [data |-> data,
     freeSpace |-> ToU32(Len(data) - pageSizeTaken(data, 0, 0, trackedFirstCellOffset))]

\* newLeafPage of the struct-field revision: the free space is counted over
\* the cells of the buffer, fresh or loaded.
newLeafPageStructField(data) ==
    InitialFreeSpace(IF data = nil THEN newStructFieldData ELSE data)

\* getFreeSpace of the struct-field revision
getFreeSpaceStructField(p) == p.freeSpace

RECURSIVE SeekStructField(_, _, _, _, _)

SeekStepStructField(data, key, currentCell, cell, offset) ==
    IF Compare(cell.key, key) = 1 THEN offset
    ELSE SeekStructField(data, key, currentCell + 1, cell.end,
             ToU32(cell.offset + getLeafNodeCellSize(Len(cell.key), Len(cell.value))))

\* The loop of addCell in the struct-field revision: the end of the last cell
\* whose key is not greater.
SeekStructField(data, key, currentCell, itOffset, offset) ==
    IF ~hasNext(data, currentCell) THEN offset
    ELSE SeekStepStructField(data, key, currentCell, next(data, currentCell, itOffset), offset)

\* Faulty variant: the field is left as it was.
SpendFreeSpace_Forgotten(freeSpace, requiredSpace) == freeSpace

\* p.freeSpace -= requiredSpace
SpendFreeSpace(freeSpace, requiredSpace) == ToU32(freeSpace - requiredSpace)

InsertStructField(p, key, value, requiredSpace, offset) ==
    [data |->
        setNumCellsTracked(
            WriteCell(
                ShiftRight(p.data, offset, requiredSpace,
                           ToU32(ToU32(Len(p.data) - offset) - p.freeSpace)),
                offset, key, value),
            getNumCellsTracked(p.data) + 1),
     freeSpace |-> SpendFreeSpace(p.freeSpace, requiredSpace)]

AddCellStructFieldWith(p, key, value, requiredSpace) ==
    IF requiredSpace > p.freeSpace
    THEN [err |-> "space", page |-> p, freeSpace |-> p.freeSpace]
    ELSE [err |-> "nil",
          page |-> InsertStructField(p, key, value, requiredSpace,
                       SeekStructField(p.data, key, 0, 0, trackedFirstCellOffset)),
          freeSpace |-> p.freeSpace]

\* addCell of the struct-field revision: the error, the page afterwards and
\* the free space the call read.
addCellStructField(p, key, value) ==
    AddCellStructFieldWith(p, key, value, getLeafNodeCellSize(Len(key), Len(value)))

\* The operations of the page, by revision.
newTracked(revision, data) ==
    IF revision = "headerField" THEN newLeafPageHeaderField(data)
    ELSE newLeafPageStructField(data)

addCellTracked(revision, p, key, value) ==
    IF revision = "headerField" THEN addCellHeaderField(p, key, value)
    ELSE addCellStructField(p, key, value)

getFreeSpaceTracked(revision, p) ==
    IF revision = "headerField" THEN getFreeSpaceHeaderField(p)
    ELSE getFreeSpaceStructField(p)

(* One page of either revision: cells are added, the page is written to its
   file, and the page is built again from what the file holds. *)

InitTracked ==
    /\ dbState \in Revisions
    /\ file = <<>>
    /\ pages = <<newTracked(dbState, nil)>>
    /\ opens = 0
    /\ last = Call("none", <<>>, <<>>, "nil", nil)
    /\ stored = EmptyBag
    /\ held = NoHeld

TrackedAddCell(key, value) ==
    /\ getNumCellsTracked(pages[1].data) < MaxTrackedCells
    /\ \E r \in {addCellTracked(dbState, pages[1], key, value)} :
          /\ pages' = <<r.page>>
          /\ last' = Call("addCell", key, <<>>, r.err, <<r.freeSpace>>)
    /\ UNCHANGED <<file, dbState, opens, stored, held>>

TrackedFlush ==
    /\ file' = pages[1].data
    /\ last' = Call("flush", <<>>, <<>>, "nil", nil)
    /\ UNCHANGED <<pages, dbState, opens, stored, held>>

\* opens counts the times the page was built from the file.
TrackedLoad ==
    /\ file # <<>>
    /\ opens < MaxOpens
    /\ pages' = <<newTracked(dbState, file)>>
    /\ opens' = opens + 1
    /\ last' = Call("load", <<>>, <<>>, "nil", nil)
    /\ UNCHANGED <<file, dbState, stored, held>>

NextTracked ==
    \/ \E key \in Keys, value \in Values : TrackedAddCell(key, value)
    \/ TrackedFlush
    \/ TrackedLoad

TrackedSpec == InitTracked /\ [][NextTracked]_vars

----------------------------------------------------------------------------
(* Two callers of Set on one open store.  Nothing in DB, bufferPool or
   leafPage takes a lock, so the steps of the two calls interleave: the lookup
   of the key, the reading of the free space, the search for the insertion
   point, the shift, the writing of the cell and the increment of the cell
   count.  held[t] is where caller t stands and what its call has read so far;
   dbState says whether a call has ever begun while the other was running;
   opens counts the calls begun. *)

Callers == {1, 2}

RaceValues == {<<7>>, <<8, 8>>}

Caller(pc, key, value, freeSpace, offset) ==
    [pc |-> pc, key |-> key, value |-> value, freeSpace |-> freeSpace, offset |-> offset]

IdleCaller == Caller("idle", <<>>, <<>>, 0, 0)

At(c, pc) == [c EXCEPT !.pc = pc]

\* The slice expressions of one turn of iterCells stay inside the buffer
\* (lines 87-94); where one does not, the program panics.
CellInPage(data, offset) ==
    /\ offset + 4 <= Len(data)
    /\ offset + 4 + Uint32(data, offset) <= Len(data)
    /\ offset + 4 + Uint32(data, offset) + 4 <= Len(data)
    /\ ReadCell(data, offset).end <= Len(data)

RECURSIVE ReadableFrom(_, _, _, _, _)

ReadableStep(data, i, mode, key, cell) ==
    IF Callback(mode, key, cell) THEN ReadableFrom(data, i + 1, cell.end, mode, key)
    ELSE TRUE

\* iterCells from cell number i at `offset` runs without a panic.
ReadableFrom(data, i, offset, mode, key) ==
    IF ~(i < getNumCells(data)) THEN TRUE
    ELSE IF ~CellInPage(data, offset) THEN FALSE
    ELSE ReadableStep(data, i, mode, key, ReadCell(data, offset))

Readable(data, mode, key) == ReadableFrom(data, 0, leafPageFirstCellOffset, mode, key)

InitRace ==
    /\ file = <<>>
    /\ pages = <<newLeafPage(0, <<>>)>>
    /\ dbState = "serial"
    /\ opens = 0
    /\ last = Call("none", <<>>, <<>>, "nil", nil)
    /\ stored = EmptyBag
    /\ held = [t \in Callers |-> IdleCaller]

\* The call of caller t returns err (or panics).
Return(t, err) ==
    /\ held' = [held EXCEPT ![t] = IdleCaller]
    /\ last' = Call("Set", held[t].key, held[t].value, err, nil)
    /\ stored' = IF err = "nil" THEN stored (+) Pair(held[t].key, held[t].value) ELSE stored

\* The call of caller t goes on at pc, with what it has read.
GoOn(t, c) ==
    /\ held' = [held EXCEPT ![t] = c]
    /\ UNCHANGED <<last, stored>>

\* Set is called: db.bufferPool.getPage(0) returns the loaded page.
BeginSet(t, key, value) ==
    /\ held[t].pc = "idle"
    /\ opens < MaxRaceSets
    /\ opens' = opens + 1
    /\ dbState' = IF \E u \in Callers : held[u].pc # "idle" THEN "overlapped" ELSE dbState
    /\ GoOn(t, Caller("find", key, value, 0, 0))
    /\ UNCHANGED <<file, pages>>

\* page.findCell(key), and the panic on a key that is found.
FindStep(t) ==
    /\ held[t].pc = "find"
    /\ IF ~Readable(pages[1].cachedData, "equal", held[t].key) THEN Return(t, "panic")
       ELSE IF IsFound(findCell(pages[1].cachedData, held[t].key)) THEN Return(t, "panic")
       ELSE GoOn(t, At(held[t], "free"))
    /\ UNCHANGED <<file, pages, dbState, opens>>

\* freeSpace := p.getFreeSpace() and the capacity test (lines 106-110).
FreeStep(t) ==
    /\ held[t].pc = "free"
    /\ IF ~Readable(pages[1].cachedData, "all", <<>>) THEN Return(t, "panic")
       ELSE IF NoRoom(ToU32(Len(held[t].key) + Len(held[t].value) + 8),
                      getFreeSpace(pages[1].cachedData))
       THEN Return(t, "space")
       ELSE GoOn(t, Caller("seek", held[t].key, held[t].value,
                           getFreeSpace(pages[1].cachedData), 0))
    /\ UNCHANGED <<file, pages, dbState, opens>>

\* The search for the insertion point (lines 113-122).
SeekStep(t) ==
    /\ held[t].pc = "seek"
    /\ IF ~Readable(pages[1].cachedData, "greater", held[t].key) THEN Return(t, "panic")
       ELSE GoOn(t, Caller("shift", held[t].key, held[t].value, held[t].freeSpace,
                           InsertOffset(pages[1].cachedData, held[t].key, held[t].freeSpace)))
    /\ UNCHANGED <<file, pages, dbState, opens>>

\* The shift (lines 124-129).  An offset beyond the end the call has read
\* makes rhsSize wrap around, and the slice expression of line 126 panics.
ShiftStep(t) ==
    /\ held[t].pc = "shift"
    /\ IF pageSize - held[t].offset - held[t].freeSpace < 0
       THEN Return(t, "panic") /\ UNCHANGED pages
       ELSE /\ GoOn(t, At(held[t], "write"))
            /\ pages' = [pages EXCEPT ![1].cachedData =
                  ShiftRight(@, held[t].offset,
                             ToU32(Len(held[t].key) + Len(held[t].value) + 8),
                             pageSize - held[t].offset - held[t].freeSpace)]
    /\ UNCHANGED <<file, dbState, opens>>

\* The writing of the cell (lines 131-142).
WriteStep(t) ==
    /\ held[t].pc = "write"
    /\ GoOn(t, At(held[t], "inc"))
    /\ pages' = [pages EXCEPT ![1].cachedData =
          WriteCell(@, held[t].offset, held[t].key, held[t].value)]
    /\ UNCHANGED <<file, dbState, opens>>

\* p.setNumCells(p.getNumCells() + 1), and Set returns nil.
IncStep(t) ==
    /\ held[t].pc = "inc"
    /\ Return(t, "nil")
    /\ pages' = [pages EXCEPT ![1].cachedData = IncNumCells(@)]
    /\ UNCHANGED <<file, dbState, opens>>

NextRace ==
    \/ \E t \in Callers, key \in Keys, value \in RaceValues : BeginSet(t, key, value)
    \/ \E t \in Callers : FindStep(t)
    \/ \E t \in Callers : FreeStep(t)
    \/ \E t \in Callers : SeekStep(t)
    \/ \E t \in Callers : ShiftStep(t)
    \/ \E t \in Callers : WriteStep(t)
    \/ \E t \in Callers : IncStep(t)

RaceSpec == InitRace /\ [][NextRace]_vars

----------------------------------------------------------------------------
(* The header accessors of the leaf page in its three layouts: the current
   one (leaf_page.go, cells from byte 10) and the two earlier revisions with a
   16-byte header.  held keeps, per field, the value last written by the
   constructor, by addCell or by a setter. *)

Layouts == {"current", "headerField", "structField"}

\* getParentIndex and setParentIndex of the header-field revision (bytes 4..8)
getParentIndexHeaderField(data) ==
    data[5] + 256 * data[6] + 65536 * data[7]
        + 16777216 * (IF data[8] >= 128 THEN data[8] - 256 ELSE data[8])

setParentIndexHeaderField(data, parentIndex) == PutUint32(data, 4, parentIndex)

\* getParentIndex of the struct-field revision (leafPageParentIndexOffset = 8)
getParentIndexStructField(data) ==
    data[9] + 256 * data[10] + 65536 * data[11]
        + 16777216 * (IF data[12] >= 128 THEN data[12] - 256 ELSE data[12])

\* Faulty variant: the parent index is written two bytes further on, over the
\* first half of the cell count.
setParentIndexStructField_Overlap(data, parentIndex) == PutUint32(data, 10, parentIndex)

\* setParentIndex of the struct-field revision
setParentIndexStructField(data, parentIndex) == PutUint32(data, 8, parentIndex)

\* The accessors, by layout.
getParentIndexIn(layout, data) ==
    CASE layout = "current" -> getParentIndex(data)
      [] layout = "headerField" -> getParentIndexHeaderField(data)
      [] layout = "structField" -> getParentIndexStructField(data)

setParentIndexIn(layout, data, parentIndex) ==
    CASE layout = "current" -> setParentIndex(data, parentIndex)
      [] layout = "headerField" -> setParentIndexHeaderField(data, parentIndex)
      [] layout = "structField" -> setParentIndexStructField(data, parentIndex)

getNumCellsIn(layout, data) ==
    IF layout = "current" THEN getNumCells(data) ELSE getNumCellsTracked(data)

setNumCellsIn(layout, data, numCells) ==
    IF layout = "current" THEN setNumCells(data, numCells)
    ELSE setNumCellsTracked(data, numCells)

\* A fresh page of the layout after n calls of addCell, each with the key <<n>>.
RECURSIVE FilledData(_, _)

FilledData(layout, n) ==
    IF n = 0
    THEN CASE layout = "current" -> newLeafData
           [] layout = "headerField" -> newLeafPageHeaderField(nil).data
           [] layout = "structField" -> newLeafPageStructField(nil).data
    ELSE CASE layout = "current" -> addCell(FilledData(layout, n - 1), <<n>>, <<7>>).data
           [] layout = "headerField" ->
                addCellHeaderField([data |-> FilledData(layout, n - 1)], <<n>>, <<7>>).page.data
           [] layout = "structField" ->
                addCellStructField(newLeafPageStructField(FilledData(layout, n - 1)),
                                   <<n>>, <<7>>).page.data

ParentIndexes == {-1, 0, 5, 67305985, -2}

CellCounts == {0, 1, 67305985}

FreeSpaces == {0, 4080, 67305985}

Written(root, parentIndex, numCells, freeSpace) ==
    [isRoot |-> root, parentIndex |-> parentIndex, numCells |-> numCells,
     freeSpace |-> freeSpace]

InitHeader ==
    /\ dbState \in Layouts
    /\ file = <<>>
    /\ \E n \in 0..MaxHeaderCells :
          /\ pages = <<[index |-> 0, cachedData |-> FilledData(dbState, n), loaded |-> TRUE]>>
          /\ opens = n
          /\ held = Written(TRUE, -1, n, leafPageDefaultFreeSpace - n * 10)
    /\ last = Call("none", <<>>, <<>>, "nil", nil)
    /\ stored = EmptyBag

SetIsRoot(root) ==
    /\ pages' = [pages EXCEPT ![1].cachedData = setIsRoot(@, root)]
    /\ held' = [held EXCEPT !.isRoot = root]
    /\ last' = Call("setIsRoot", <<>>, <<>>, "nil", nil)
    /\ UNCHANGED <<file, dbState, opens, stored>>

SetParentIndex(parentIndex) ==
    /\ pages' = [pages EXCEPT ![1].cachedData = setParentIndexIn(dbState, @, parentIndex)]
    /\ held' = [held EXCEPT !.parentIndex = parentIndex]
    /\ last' = Call("setParentIndex", <<>>, <<>>, "nil", nil)
    /\ UNCHANGED <<file, dbState, opens, stored>>

SetNumCells(numCells) ==
    /\ pages' = [pages EXCEPT ![1].cachedData = setNumCellsIn(dbState, @, numCells)]
    /\ held' = [held EXCEPT !.numCells = numCells]
    /\ last' = Call("setNumCells", <<>>, <<>>, "nil", nil)
    /\ UNCHANGED <<file, dbState, opens, stored>>

\* Only the header-field revision has setFreeSpace.
SetFreeSpace(freeSpace) ==
    /\ dbState = "headerField"
    /\ pages' = [pages EXCEPT ![1].cachedData = setFreeSpace(@, freeSpace)]
    /\ held' = [held EXCEPT !.freeSpace = freeSpace]
    /\ last' = Call("setFreeSpace", <<>>, <<>>, "nil", nil)
    /\ UNCHANGED <<file, dbState, opens, stored>>

NextHeader ==
    \/ \E root \in BOOLEAN : SetIsRoot(root)
    \/ \E parentIndex \in ParentIndexes : SetParentIndex(parentIndex)
    \/ \E numCells \in CellCounts : SetNumCells(numCells)
    \/ \E freeSpace \in FreeSpaces : SetFreeSpace(freeSpace)

HeaderSpec == InitHeader /\ [][NextHeader]_vars

----------------------------------------------------------------------------
(* The buffer pool on its own: addPage, getPage, flushPage and close called
   directly, reads and writes of the file succeeding or failing *)

\* A leaf page as an earlier run leaves it in the file, one cell in it.
StoredLeaf == addCell(newLeafData, <<1>>, <<7>>).data

\* A page that carries the tag of an internal page.
StoredInternal == [newLeafData EXCEPT ![1] = pageKindInternal]

\* The files a pool is opened on: none yet, a leaf page, and a page of zeros (as
\* a preallocated file has) followed by an internal page.
PoolFiles == {<<>>, StoredLeaf, Zeros(pageSize) \o StoredInternal}

PoolCall(op, index, err, io, reads, writes, page) ==
    [op |-> op, index |-> index, err |-> err, io |-> io,
     reads |-> reads, writes |-> writes, page |-> page]

InitPool ==
    /\ file \in PoolFiles
    /\ pages = newBufferPool(file)
    /\ dbState = "pool"
    /\ opens = 0
    /\ last = PoolCall("newBufferPool", 0, "nil", "nil", 0, <<>>, NoPage)
    /\ stored = EmptyBag
    /\ held = NoHeld

AddPage(werr) ==
    /\ dbState = "pool"
    /\ Len(pages) < MaxPages
    /\ \E r \in {addPageIO(pages, file, werr)} :
          /\ pages' = r.pages
          /\ file' = r.file
          /\ last' = PoolCall("addPage", r.page.index, r.err, werr, 0, r.writes, r.page)
    /\ UNCHANGED <<dbState, opens, stored, held>>

GetPage(pageIndex, rerr) ==
    /\ dbState \in {"pool", "poolclosed"}
    /\ \E r \in {getPageIO(pages, file, pageIndex, rerr)} :
          /\ pages' = r.pages
          /\ last' = PoolCall("getPage", pageIndex, r.err, rerr, r.reads, <<>>, r.page)
    /\ UNCHANGED <<file, dbState, opens, stored, held>>

FlushPage(pageIndex, werr) ==
    /\ dbState = "pool"
    /\ pageIndex < Len(pages)
    /\ \E r \in {flushPageIO(pages, file, pageIndex, werr)} :
          /\ file' = r.file
          /\ last' = PoolCall("flushPage", pageIndex, r.err, werr, 0, r.writes, NoPage)
    /\ UNCHANGED <<pages, dbState, opens, stored, held>>

\* addCell on a page getPage has returned: the pool's slot is that page.
PageAddCell(pageIndex, key, value) ==
    /\ dbState = "pool"
    /\ pageIndex < Len(pages)
    /\ pages[pageIndex + 1].loaded
    /\ BagCardinality(stored) < MaxPoolCells
    /\ \E r \in {addCell(pages[pageIndex + 1].cachedData, key, value)} :
          /\ pages' = [pages EXCEPT ![pageIndex + 1].cachedData = r.data]
          /\ last' = PoolCall("addCell", pageIndex, r.err, "nil", 0, <<>>, NoPage)
          /\ stored' = IF r.err = "nil" THEN stored (+) Pair(key, value) ELSE stored
    /\ UNCHANGED <<file, dbState, opens, held>>

ClosePool(failing) ==
    /\ dbState = "pool"
    /\ \E r \in {FlushFromIO(pages, file, 0, failing)} :
          /\ file' = r.file
          /\ last' = PoolCall("close", 0, "nil", failing, 0, r.writes, NoPage)
    /\ pages' = <<>>
    /\ dbState' = "poolclosed"
    /\ UNCHANGED <<opens, stored, held>>

NextPool ==
    \/ \E werr \in IOErrors : AddPage(werr)
    \/ \E pageIndex \in 0..MaxPages, rerr \in IOErrors : GetPage(pageIndex, rerr)
    \/ \E pageIndex \in 0..(MaxPages - 1), werr \in IOErrors : FlushPage(pageIndex, werr)
    \/ \E pageIndex \in 0..(MaxPages - 1) : PageAddCell(pageIndex, <<2>>, <<8>>)
    \/ \E failing \in {{}} \cup {{i} : i \in 0..(MaxPages - 1)} : ClosePool(failing)

PoolSpec == InitPool /\ [][NextPool]_vars

----------------------------------------------------------------------------
(* Notions the properties are stated with *)

\* Page 0 as the pool sees it: its buffer when the slot is loaded, else the
\* first page of the file.
Page0 ==
    IF Len(pages) >= 1 /\ pages[1].loaded THEN pages[1].cachedData
    ELSE Slice(file, 0, pageSize)

\* The leaf page of LeafSpec.
Leaf == pages[1].cachedData

StoredPairs == BagToSet(stored)

KeyStored(key) == \E p \in StoredPairs : p[1] = key

StoredValue(key) == (CHOOSE p \in StoredPairs : p[1] = key)[2]

CellSize(key, value) == Len(key) + Len(value) + 8

RECURSIVE SumSizes(_)

SumWith(B, p) ==
    B[p] * CellSize(p[1], p[2]) + SumSizes([q \in (DOMAIN B) \ {p} |-> B[q]])

\* The bytes taken by all the cells of a bag of (key, value) pairs.
SumSizes(B) == IF DOMAIN B = {} THEN 0 ELSE SumWith(B, CHOOSE p \in DOMAIN B : TRUE)

\* The free space the insertions so far leave.
FreeByHistory == pageSize - leafPageFirstCellOffset - SumSizes(stored)

\* The keys iteration yields, in order.
IterKeys(data) ==
    [i \in 1..Len(iterCells(data, "all", <<>>).visited) |->
        iterCells(data, "all", <<>>).visited[i].key]

\* The bytes of the cells iteration yields.
RECURSIVE PhysicalSum(_, _)
PhysicalSum(cells, i) ==
    IF i > Len(cells) THEN 0
    ELSE (cells[i].end - cells[i].offset) + PhysicalSum(cells, i + 1)

StrictlyAscending(ks) == \A i \in 1..(Len(ks) - 1) : Compare(ks[i], ks[i + 1]) = -1

NonDecreasing(ks) == \A i \in 1..(Len(ks) - 1) : Compare(ks[i], ks[i + 1]) # 1

NoRepeatedKey ==
    \A p \in StoredPairs : stored[p] = 1 /\ \A q \in StoredPairs : q[1] = p[1] => q = p

\* Every pair of the bag B is what Get returns for its key.
AllRetrievableIn(ps, f, B) ==
    \A p \in BagToSet(B) :
        /\ DBGet(ps, f, p[1]).err = "nil"
        /\ DBGet(ps, f, p[1]).out = p[2]

AllRetrievable == AllRetrievableIn(pages, file, stored)

\* The free space, the bytes of the cells and the header fill the page, and
\* the cells of the page take the bytes of the pairs of the bag B.
Accounting(data, B) ==
    /\ getFreeSpace(data)
         + PhysicalSum(iterCells(data, "all", <<>>).visited, 1)
         + leafPageFirstCellOffset = pageSize
    /\ PhysicalSum(iterCells(data, "all", <<>>).visited, 1) = SumSizes(B)

\* The bytes of page i of a file, and whether the file holds that page whole.
FilePage(f, i) == Slice(f, i * pageSize, (i + 1) * pageSize)

HasFilePage(f, i) == (i + 1) * pageSize <= Len(f)

Min(a, b) == IF a < b THEN a ELSE b

\* The bytes a file had outside the window of page i are what they were.
OthersKept(f, g, i) ==
    /\ Len(g) >= Len(f)
    /\ SubSeq(g, 1, Min(i * pageSize, Len(f))) = SubSeq(f, 1, Min(i * pageSize, Len(f)))
    /\ SubSeq(g, (i + 1) * pageSize + 1, Len(f)) = SubSeq(f, (i + 1) * pageSize + 1, Len(f))

\* The positions of the loaded slots, in ascending order.
LoadedSlots(ps) == SelectSeq([i \in 1..Len(ps) |-> i - 1], LAMBDA i : ps[i + 1].loaded)

\* One write of a whole page per loaded slot, in ascending order of position.
WritesOfLoaded(ps) ==
    [n \in 1..Len(LoadedSlots(ps)) |->
        [offset |-> LoadedSlots(ps)[n] * pageSize, size |-> pageSize]]

\* No write of a loaded slot is made to fail.
NoneFails(ps, failing) == \A i \in failing : ~(i < Len(ps) /\ ps[i + 1].loaded)

\* The (key, value) pairs iteration yields, in order.
Cells(data) ==
    [i \in 1..Len(iterCells(data, "all", <<>>).visited) |->
        <<iterCells(data, "all", <<>>).visited[i].key,
          iterCells(data, "all", <<>>).visited[i].value>>]

\* The sequence cs with x put at position p.
InsertAt(cs, p, x) == SubSeq(cs, 1, p - 1) \o <<x>> \o SubSeq(cs, p, Len(cs))

\* The position of the first pair of cs whose key is greater than key, or the
\* position past the last pair.
FirstGreater(cs, key) ==
    IF \E i \in 1..Len(cs) : Compare(cs[i][1], key) = 1
    THEN CHOOSE i \in 1..Len(cs) :
            /\ Compare(cs[i][1], key) = 1
            /\ \A j \in 1..(i - 1) : Compare(cs[j][1], key) # 1
    ELSE Len(cs) + 1

\* The offset at which the pair number p of a page starts; past the last pair,
\* the offset at which the cells end.
OffsetOfCell(data, p) ==
    IF p <= Len(iterCells(data, "all", <<>>).visited)
    THEN iterCells(data, "all", <<>>).visited[p].offset
    ELSE iterCells(data, "all", <<>>).offset

\* The bag of the pairs of a sequence of cells, from cell i on.
RECURSIVE BagOfCells(_, _)
BagOfCells(cs, i) ==
    IF i > Len(cs) THEN EmptyBag
    ELSE Pair(cs[i].key, cs[i].value) (+) BagOfCells(cs, i + 1)

\* The cells cs, in this order, fill the bytes of the page from the end of the
\* header on without a gap, end inside the page, and no byte follows them.
PackedIn(data, cs) ==
    /\ Len(cs) > 0 => cs[1].offset = leafPageFirstCellOffset
    /\ \A i \in 1..(Len(cs) - 1) : cs[i + 1].offset = cs[i].end
    /\ \A i \in 1..Len(cs) :
          /\ cs[i].end = cs[i].offset + 8 + Len(cs[i].key) + Len(cs[i].value)
          /\ cs[i].end <= pageSize
          /\ Uint32(data, cs[i].offset) = Len(cs[i].key)
          /\ Uint32(data, cs[i].offset + 4 + Len(cs[i].key)) = Len(cs[i].value)
    /\ \A k \in (IF Len(cs) = 0 THEN leafPageFirstCellOffset ELSE cs[Len(cs)].end) + 1
                 .. pageSize : data[k] = 0

----------------------------------------------------------------------------
(* Properties *)

\* C1: a Set(key, value) that returned nil is followed by a Get(key) that
\* returns, without error, a value byte-equal to value.
C1_RoundTrip ==
    (last.op = "Set" /\ last.err = "nil") =>
        /\ DBGet(pages, file, last.key).err = "nil"
        /\ DBGet(pages, file, last.key).out = last.value

\* C1 witness: a big value was just set into a page that already held a cell.
C1_Witness ==
    /\ last.op = "Set" /\ last.err = "nil"
    /\ Len(last.value) = BigLen
    /\ getNumCells(Page0) >= 2

\* C2: right after a Close and a fresh OpenDB on the same file, Get of every
\* key set before returns exactly the bytes that were set for it.
C2_Persistence ==
    (last.op = "OpenDB" /\ opens >= 2) => AllRetrievable

\* C2 witness: a store reopened on a file that holds two cells set earlier.
C2_Witness ==
    /\ last.op = "OpenDB" /\ opens >= 2
    /\ BagCardinality(stored) >= 2

\* C3: Get of a key that was never inserted returns nil and no error, whatever
\* other keys the page holds.
C3_MissingKey ==
    (last.op = "Get" /\ dbState = "open" /\ ~KeyStored(last.key)) =>
        (last.out = nil /\ last.err = "nil")

\* C3 witness: a Get of a missing key on a page that holds other keys, one of
\* them greater and one smaller.
C3_Witness ==
    /\ last.op = "Get" /\ dbState = "open"
    /\ last.key = <<1, 2>> /\ ~KeyStored(<<1, 2>>)
    /\ KeyStored(<<1>>) /\ KeyStored(<<2>>)

\* C4 as claimed: after any successful addCell calls the keys iterate in
\* strictly ascending order.
C4_StrictlyAscending == dbState = "leaf" => StrictlyAscending(IterKeys(Leaf))

\* C4 as amended: the keys iterate in non-decreasing order, and in strictly
\* ascending order when no key was added more than once.
C4_Ordered ==
    dbState = "leaf" =>
        /\ NonDecreasing(IterKeys(Leaf))
        /\ NoRepeatedKey => StrictlyAscending(IterKeys(Leaf))

\* C4 witness: three distinct keys, the middle one added last.
C4_Witness ==
    /\ dbState = "leaf" /\ NoRepeatedKey
    /\ last.op = "addCell" /\ last.err = "nil" /\ last.key = <<1, 2>>
    /\ getNumCells(Leaf) = 3

\* C5: a Set whose cell needs more than the free space returns the capacity
\* error and leaves page 0, the file and every stored pair as they were.
C5_Capacity ==
    [][(/\ dbState = "open"
        /\ last'.op = "Set"
        /\ ~KeyStored(last'.key)
        /\ CellSize(last'.key, last'.value) > FreeByHistory)
       => (/\ last'.err = "space"
           /\ Page0' = Page0
           /\ file' = file
           /\ stored' = stored
           /\ \E ps \in {pages'} : AllRetrievableIn(ps, file, stored))]_vars

\* C5 witness: a Set was refused on a page that holds two cells.
C5_Witness ==
    /\ last.op = "Set" /\ last.err = "space"
    /\ BagCardinality(stored) >= 2
    /\ getNumCells(Page0) = 2

\* C6: the free space, the bytes of the cells and the header add up to the page
\* size, the cells present being the ones added; a successful addCell lowers
\* the free space by exactly len(key) + len(value) + 8.
C6_FreeSpace ==
    /\ [](dbState = "leaf" => Accounting(Leaf, stored))
    /\ [][(dbState = "leaf" /\ stored' # stored) =>
            \E before \in {Leaf}, after \in {Leaf'} :
                getFreeSpace(after) =
                    getFreeSpace(before) - CellSize(last'.key, last'.value)]_vars

\* C6 witness: a cell was added before an existing one, behind another.
C6_Witness ==
    /\ dbState = "leaf"
    /\ last.op = "addCell" /\ last.err = "nil" /\ last.key = <<1, 2>>
    /\ getNumCells(Leaf) >= 3

\* C7: a Set on a key that is stored panics before addCell: page 0, the file
\* and the stored pairs are unchanged and Get still returns the first value.
C7_NoOverwrite ==
    [][(/\ dbState = "open"
        /\ last'.op = "Set"
        /\ KeyStored(last'.key))
       => (/\ last'.err = "panic"
           /\ Page0' = Page0
           /\ file' = file
           /\ stored' = stored
           /\ \E ps \in {pages'} :
                 DBGet(ps, file, last'.key).out = StoredValue(last'.key))]_vars

\* C7 witness: a Set with another value for a stored key has panicked.
C7_Witness ==
    /\ last.op = "Set" /\ last.err = "panic"
    /\ KeyStored(last.key)
    /\ last.value # StoredValue(last.key)

\* The store right after OpenDB on an empty file.
FreshStore ==
    /\ last.op = "OpenDB" /\ last.err = "nil"
    /\ Len(pages) = 1
    /\ pages[1].loaded
    /\ pages[1].index = 0
    /\ getKind(pages[1].cachedData) = pageKindLeaf
    /\ isRoot(pages[1].cachedData)
    /\ getParentIndex(pages[1].cachedData) = -1
    /\ getNumCells(pages[1].cachedData) = 0
    /\ getFreeSpace(pages[1].cachedData) = pageSize - leafPageFirstCellOffset
    /\ file = pages[1].cachedData
    /\ getPageCount(file) = 1

\* C8: OpenDB on a zero-byte file creates exactly one page, an empty root leaf
\* at index 0, and writes it, so that the file holds exactly that page.
C8_FreshRoot == [][(file = <<>> /\ opens' = opens + 1) => FreshStore']_vars

\* C8 witness: the first OpenDB has returned and the file is one page long.
C8_Witness == opens = 1 /\ last.op = "OpenDB" /\ Len(file) = pageSize

\* C9 as claimed: OpenDB on a file that already holds pages adds no page to the
\* file nor to the pool.
C9_NoPageAdded ==
    [][(opens' = opens + 1 /\ getPageCount(file) >= 1)
       => (/\ getPageCount(file') = getPageCount(file)
           /\ Len(pages') = getPageCount(file))]_vars

\* C10 as claimed: OpenDB on a file whose size is no multiple of the page size
\* fails, returns no pool and leaves the file alone.
C10_RejectsPartialFile ==
    [][(opens' = opens + 1 /\ Len(file) % pageSize # 0)
       => (/\ last'.err # "nil"
           /\ dbState' # "open"
           /\ file' = file)]_vars

\* C11: getPage of an index that is no slot of the pool returns the out-of-range
\* error, reads nothing from the file and leaves every slot and the file as
\* they were.
C11_OutOfRange ==
    [][(last'.op = "getPage" /\ last'.index >= Len(pages))
       => (/\ last'.err = "index"
           /\ last'.reads = 0
           /\ pages' = pages
           /\ file' = file)]_vars

\* C11 witness: getPage of the index just past the last slot of a pool that
\* holds a loaded page.
C11_Witness ==
    /\ last.op = "getPage" /\ last.err = "index"
    /\ last.index = Len(pages)
    /\ Len(pages) >= 1 /\ pages[Len(pages)].loaded

\* C12 as claimed: when the write of the new page fails, addPage returns the
\* error of that write.
C12_WriteErrorReturned ==
    [][(last'.op = "addPage" /\ last'.io # "nil") => last'.err = last'.io]_vars

\* C13 as claimed: getPage of a page whose first byte in the file is not the
\* tag of a loadable kind returns an error; it neither succeeds nor panics.
C13_ReportsCorruption ==
    [][(/\ last'.op = "getPage"
        /\ last'.reads = 1
        /\ last'.io = "nil"
        /\ HasFilePage(file, last'.index)
        /\ getKind(FilePage(file, last'.index)) # pageKindLeaf)
       => last'.err \notin {"nil", "panic"}]_vars

\* C15: flushPage of a slot that is not loaded returns an error and writes
\* nothing; of a loaded slot, it writes the 4096 bytes of the page's buffer at
\* offset index * 4096 and leaves the other bytes of the file as they were.
C15_FlushPage ==
    [][(last'.op = "flushPage")
       => \E i \in {last'.index}, g \in {file'} :
            IF ~pages[i + 1].loaded
            THEN /\ last'.err \notin {"nil", "panic"}
                 /\ last'.writes = <<>>
                 /\ g = file
            ELSE last'.io = "nil" =>
                 /\ last'.err = "nil"
                 /\ last'.writes = <<[offset |-> i * pageSize, size |-> pageSize]>>
                 /\ HasFilePage(g, i)
                 /\ FilePage(g, i) = pages[i + 1].cachedData
                 /\ OthersKept(file, g, i)]_vars

\* C15 witness: a loaded page with a cell not yet in the file was flushed to
\* the second page of the file, and the first page of the file holds a cell.
C15_Witness ==
    /\ last.op = "flushPage" /\ last.err = "nil" /\ last.index = 1
    /\ HasFilePage(file, 1)
    /\ getNumCells(FilePage(file, 1)) = 1
    /\ getNumCells(FilePage(file, 0)) = 1

\* C15 witness, the other case: flushPage of a slot that is not loaded.
C15_WitnessUnloaded == last.op = "flushPage" /\ last.err = "unloaded"

\* C16: close() writes every loaded page, in ascending order of index, skips
\* the slots that are not loaded and leaves the pool without slots; when the
\* writes succeed the file then holds, for every page that was loaded, the
\* bytes of its buffer, and the bytes of the other pages are as they were.
C16_Close ==
    [][(last'.op = "close")
       => \E g \in {file'} :
            /\ pages' = <<>>
            /\ last'.writes = WritesOfLoaded(pages)
            /\ NoneFails(pages, last'.io) =>
                 \A i \in 0..(Len(pages) - 1) :
                    IF pages[i + 1].loaded
                    THEN HasFilePage(g, i) /\ FilePage(g, i) = pages[i + 1].cachedData
                    ELSE HasFilePage(file, i) => FilePage(g, i) = FilePage(file, i)]_vars

\* C16 witness: a pool was closed with its first slot not loaded and its second
\* slot loaded and holding a cell, which is now in the file.
C16_Witness ==
    /\ last.op = "close" /\ last.io = {}
    /\ last.writes = <<[offset |-> pageSize, size |-> pageSize]>>
    /\ HasFilePage(file, 1)
    /\ getNumCells(FilePage(file, 1)) = 1

\* C19 as claimed: after an addPage that returned nil and whose write went
\* through, the file has as many pages as the pool has slots, the new page is
\* in the last slot and its index is the position of that slot.
C19_PoolMatchesFile ==
    [][(last'.op = "addPage" /\ last'.err = "nil" /\ last'.io = "nil")
       => \E ps \in {pages'}, g \in {file'} :
            /\ getPageCount(g) = Len(ps)
            /\ ps[Len(ps)] = last'.page
            /\ last'.page.index = Len(ps) - 1]_vars

\* C20: getPage reads the file only when the slot is not loaded; for a loaded
\* slot it reads nothing and returns the page of the slot as it is in memory,
\* with the cells added since it was read, and leaves the pool as it was.
C20_Cached ==
    [][(last'.op = "getPage" /\ last'.index < Len(pages))
       => IF pages[last'.index + 1].loaded
          THEN /\ last'.reads = 0
               /\ last'.err = "nil"
               /\ last'.page = pages[last'.index + 1]
               /\ pages' = pages
          ELSE last'.reads = 1]_vars

\* C20 witness: getPage returned, without a read, a page read from the file
\* earlier that holds a cell the file does not hold yet.
C20_Witness ==
    /\ last.op = "getPage" /\ last.err = "nil" /\ last.reads = 0
    /\ HasFilePage(file, last.index)
    /\ getNumCells(FilePage(file, last.index)) = 1
    /\ getNumCells(last.page.cachedData) = 2
    /\ findCell(last.page.cachedData, <<2>>) = <<8>>

\* C17: a successful addCell(key, value) puts the new cell right before the
\* first cell whose key is greater than key, or after the last cell when there
\* is none (at the first-cell offset on an empty page); the cells afterwards
\* are the cells before with that one cell put in, the others as they were and
\* in the same order.
C17_InsertionPoint ==
    [][(dbState = "leaf" /\ last'.op = "addCell" /\ last'.err = "nil")
       => \E before \in {Leaf}, after \in {Leaf'}, key \in {last'.key} :
            /\ Cells(after) =
                  InsertAt(Cells(before), FirstGreater(Cells(before), key),
                           <<key, last'.value>>)
            /\ OffsetOfCell(after, FirstGreater(Cells(before), key)) =
                  OffsetOfCell(before, FirstGreater(Cells(before), key))
            /\ getNumCells(before) = 0 =>
                  OffsetOfCell(after, 1) = leafPageFirstCellOffset]_vars

\* C17 witness: a cell was added whose key is on the page already, with a
\* greater key after it: the new cell is the second of three.
C17_Witness ==
    /\ dbState = "leaf"
    /\ last.op = "addCell" /\ last.err = "nil"
    /\ last.key = <<1>> /\ last.value = <<7>>
    /\ Cells(Leaf) = << <<<<1>>, Fill(BigLen, 9)>>, <<<<1>>, <<7>>>>, <<<<2>>, <<7>>>> >>

\* C18: on a leaf page numCells is the number of cells present, which are the
\* cells added; the first cell starts right after the header, every cell
\* starts where the one before ends, the last cell ends inside the page and
\* nothing but zeros follows it.
C18_Packed ==
    dbState = "leaf" =>
        \E cs \in {iterCells(Leaf, "all", <<>>).visited} :
            /\ getNumCells(Leaf) = BagCardinality(stored)
            /\ Len(cs) = getNumCells(Leaf)
            /\ BagOfCells(cs, 1) = stored
            /\ PackedIn(Leaf, cs)

\* C18 witness: a page that its cells fill to the last byte.
C18_Witness ==
    /\ dbState = "leaf"
    /\ getNumCells(Leaf) = 2
    /\ iterCells(Leaf, "all", <<>>).offset = pageSize

\* C14: the slice findCell returns is a copy: it shows the bytes it was
\* returned with after any number of later addCell calls, also when the cell
\* has moved, and a write into it changes the result of no later findCell.
C14_Copy ==
    /\ []((dbState = "leaf" /\ held.orig # nil /\ ~held.written)
            => BytesOf(held.buf, Leaf) = held.orig)
    /\ [][(last'.op = "write")
          => \E before \in {Leaf}, after \in {Leaf'} :
                \A key \in Keys : findCell(after, key) = findCell(before, key)]_vars

\* C14 witness: the caller has written into a slice it was returned; the cell
\* has since moved to a higher offset and findCell still returns its value.
C14_Witness ==
    /\ dbState = "leaf"
    /\ held.orig # nil /\ held.written
    /\ BytesOf(held.buf, Leaf) # held.orig
    /\ findCell(Leaf, held.key) = held.orig
    /\ iterCells(Leaf, "equal", held.key).offset > held.cellOffset + 8 + Len(held.key) + Len(held.orig)

\* C21: the pool never evicts: a slot that is loaded stays loaded, with the
\* same page and buffer, through every addPage, getPage and flushPage, and with
\* the same page through an addCell on it; only close() unloads it.
C21_NoEviction ==
    [][\A i \in 1..Len(pages) :
          pages[i].loaded =>
             IF last'.op = "close" THEN pages' = <<>>
             ELSE /\ Len(pages') >= i
                  /\ pages'[i].loaded
                  /\ pages'[i].index = pages[i].index
                  /\ \/ last'.op = "addCell" /\ last'.index = i - 1
                     \/ pages'[i] = pages[i]]_vars

\* C21 witness: addPage has returned while the first slot holds a page read
\* from the file with a cell added since, which the file does not hold.
C21_Witness ==
    /\ last.op = "addPage"
    /\ Len(pages) = 2
    /\ pages[1].loaded /\ pages[2].loaded
    /\ HasFilePage(file, 0)
    /\ getNumCells(FilePage(file, 0)) = 1
    /\ getNumCells(pages[1].cachedData) = 2

\* C22 as claimed: in the file no page but page 0 is marked as root.
C22_OnlyPageZeroIsRoot ==
    \A i \in 1..MaxOpens : HasFilePage(file, i) => ~isRoot(FilePage(file, i))

\* C23: Get and Set load, read and change page 0 only: the other slots of the
\* pool, loaded or not, and the bytes of the file are as they were.
C23_OnlyPageZero ==
    [][(last'.op \in {"Get", "Set"})
       => (/\ file' = file
           /\ Len(pages') = Len(pages)
           /\ \A i \in 2..Len(pages) : pages'[i] = pages[i])]_vars

\* C23 witness: a Set has stored a cell while the pool holds a second, loaded
\* page.
C23_Witness ==
    /\ last.op = "Set" /\ last.err = "nil"
    /\ Len(pages) = 2
    /\ pages[1].loaded /\ pages[2].loaded
    /\ getNumCells(pages[1].cachedData) >= 1
    /\ getNumCells(pages[2].cachedData) = 0

\* C27: Get and Set leave the bytes of the file as they are; the file changes
\* only when a page is added or flushed (in OpenDB and in Close): a cell just
\* set is not in the file, and after Close every cell set is.
C27_SetInMemory ==
    [][\E g \in {file'} :
          /\ last'.op \in {"Get", "Set"} => g = file
          /\ g # file => last'.op \in {"OpenDB", "Close"}
          /\ (dbState = "open" /\ last'.op = "Set" /\ last'.err = "nil")
                => (HasFilePage(g, 0) /\ findCell(FilePage(g, 0), last'.key) = nil)
          /\ (last'.op = "Close" /\ stored # EmptyBag)
                => (/\ HasFilePage(g, 0)
                    /\ \A p \in BagToSet(stored) : findCell(FilePage(g, 0), p[1]) = p[2])]_vars

\* C27 witness: a Set has stored a second cell in page 0 while the file holds
\* the page with the one cell flushed by an earlier Close.
C27_Witness ==
    /\ last.op = "Set" /\ last.err = "nil"
    /\ dbState = "open" /\ opens = 2
    /\ getNumCells(FilePage(file, 0)) = 1
    /\ getNumCells(Page0) = 2

\* C28: after Close every Get and Set returns the out-of-range error of
\* getPage: Get returns no value, the file is not written and no page is
\* loaded, the pool staying without slots.
C28_AfterClose ==
    [][(dbState = "closed" /\ last'.op \in {"Get", "Set"})
       => (/\ last'.err = "index"
           /\ last'.out = nil
           /\ file' = file
           /\ pages = <<>> /\ pages' = <<>>
           /\ stored' = stored)]_vars

\* C28 witness: Get, after Close, of a key that was set and flushed.
C28_Witness ==
    /\ dbState = "closed"
    /\ last.op = "Get" /\ last.err = "index" /\ last.out = nil
    /\ KeyStored(last.key)
    /\ findCell(FilePage(file, 0), last.key) # nil

\* C26: addCell is refused exactly when the cell needs more than the free
\* space: a cell that needs exactly the free space is stored, after which the
\* free space is 0 and the last cell ends at the end of the page, and on a page
\* without free space every addCell returns the capacity error.
C26_ExactFit ==
    [][(dbState = "leaf" /\ last'.op = "addCell")
       => \E before \in {Leaf}, after \in {Leaf'},
             need \in {CellSize(last'.key, last'.value)} :
            /\ last'.err = "space" <=> need > getFreeSpace(before)
            /\ last'.err \in {"space", "nil"}
            /\ need = getFreeSpace(before) =>
                  /\ last'.err = "nil"
                  /\ getFreeSpace(after) = 0
                  /\ iterCells(after, "all", <<>>).offset = pageSize
            /\ getFreeSpace(before) = 0 => (last'.err = "space" /\ after = before)]_vars

\* C26 witness: addCell was refused on a page that two cells fill to the last
\* byte.
C26_Witness ==
    /\ dbState = "leaf"
    /\ last.op = "addCell" /\ last.err = "space"
    /\ Len(last.value) = 1
    /\ getFreeSpace(Leaf) = 0
    /\ getNumCells(Leaf) = 2

\* C29: addCell called with a key the page holds already, and room enough,
\* succeeds; the new cell goes right after the last cell with that key, and
\* findCell of the key returns what it returned before, the value stored with
\* the key first.
C29_Duplicate ==
    [][(/\ dbState = "leaf" /\ last'.op = "addCell"
        /\ findCell(Leaf, last'.key) # nil
        /\ CellSize(last'.key, last'.value) <= getFreeSpace(Leaf))
       => \E before \in {Cells(Leaf)}, after \in {Cells(Leaf')}, key \in {last'.key} :
            /\ last'.err = "nil"
            /\ Len(after) = Len(before) + 1
            /\ \E n \in 2..Len(after) :
                  /\ after[n] = <<key, last'.value>>
                  /\ after[n - 1][1] = key
                  /\ n < Len(after) => after[n + 1][1] # key
                  /\ after = InsertAt(before, n, <<key, last'.value>>)
            /\ \E a \in {Leaf'} : findCell(a, key) = findCell(Leaf, key)
            /\ \A i \in 1..Len(after) :
                  (after[i][1] = key /\ \A j \in 1..(i - 1) : after[j][1] # key)
                     => findCell(Leaf, key) = after[i][2]]_vars

\* C29 witness: a key was added a third time, each time with another value
\* than the time before, a smaller and a greater key being on the page.
C29_Witness ==
    /\ dbState = "leaf"
    /\ last.op = "addCell" /\ last.err = "nil" /\ last.key = <<1, 2>>
    /\ Cells(Leaf) = << <<<<1, 2>>, <<7>>>>, <<<<1, 2>>, Fill(BigLen, 9)>>,
                        <<<<1, 2>>, <<7>>>>, <<<<2>>, <<7>>>> >>
    /\ findCell(Leaf, <<1, 2>>) = <<7>>

\* C30 as claimed: the page count a pool derives from the size of the file is
\* the size divided by 4096 with nothing cut off, every page of the count
\* lying whole in the file at offset index * 4096.
C30_NoTruncation ==
    [][(last'.op = "OpenDB")
       => (/\ Len(newBufferPool(file)) * pageSize = Len(file)
           /\ \A i \in 0..(Len(newBufferPool(file)) - 1) : HasFilePage(file, i))]_vars

\* C24: an iteration over a leaf page, run to the end or left early, changes
\* no byte of the page; it hands at most numCells cells to its callback; it
\* starts at the first cell whatever ran before, and what it has visited when
\* it ends is what iterCells yields for the page, the same every time.
C24_PureIteration ==
    /\ [][(last'.op = "iter") => (pages' = pages /\ file' = file)]_vars
    /\ [][(last'.op = "iter" /\ last'.visited = <<>> /\ ~last'.done)
            => (last'.i = 0 /\ last'.offset = leafPageFirstCellOffset)]_vars
    /\ []((last.op = "iter")
            => /\ Len(last.visited) <= getNumCells(Leaf)
               /\ last.i <= getNumCells(Leaf)
               /\ (last.done =>
                    /\ last.visited = iterCells(Leaf, last.mode, last.key).visited
                    /\ last.offset = iterCells(Leaf, last.mode, last.key).offset))

\* C24 witness: an iteration looking for a key has been left at the second of
\* three cells.
C24_Witness ==
    /\ last.op = "iter" /\ last.done /\ last.mode = "equal"
    /\ Len(last.visited) = 2
    /\ getNumCells(Leaf) = 3
    /\ last.visited[2].key = last.key

RECURSIVE ScanEnd(_, _, _)

\* The end offset of the last of n cells laid out from `offset` on.
ScanEnd(data, n, offset) ==
    IF n = 0 THEN offset ELSE ScanEnd(data, n - 1, ReadCell(data, offset).end)

\* The free space by a full scan of a page with a 16-byte header.
ScannedFreeSpace(data) ==
    pageSize - ScanEnd(data, getNumCellsTracked(data), trackedFirstCellOffset)

\* C25: in both revisions that keep the free space, the kept value is the one
\* a full scan gives (page size minus the end of the last cell) in every state
\* addCell can be called in: on a fresh page, after an addCell that succeeded
\* or failed, and after the page was written to the file and built again from
\* it; and the value an addCell read is the scanned value of the page it ran on.
C25_TrackedIsScanned ==
    /\ [](getFreeSpaceTracked(dbState, pages[1]) = ScannedFreeSpace(pages[1].data))
    /\ [][(last'.op = "addCell") => (last'.out = <<ScannedFreeSpace(pages[1].data)>>)]_vars

\* C25 witness: in the struct-field revision a page with a cell, built again
\* from the file, has refused a cell for lack of space.
C25_Witness ==
    /\ dbState = "structField"
    /\ opens > 0
    /\ file = pages[1].data
    /\ getNumCellsTracked(pages[1].data) = 1
    /\ last.op = "addCell" /\ last.err = "space"

\* No call of Set is running.
Quiet == \A t \in Callers : held[t].pc = "idle"

\* The page holds exactly the pairs Set has returned nil for: iteration runs
\* over numCells well-formed cells, they are those pairs, in strictly ascending
\* key order, and findCell returns each pair's value.
SoundLeaf(data) ==
    /\ Len(data) = pageSize
    /\ Readable(data, "all", <<>>)
    /\ BagOfCells(iterCells(data, "all", <<>>).visited, 1) = stored
    /\ StrictlyAscending(IterKeys(data))
    /\ \A p \in StoredPairs : findCell(data, p[1]) = p[2]

\* C31: as long as no call of Set has begun while another was running, the
\* page is sound whenever no call is running; the store itself does nothing
\* to keep calls apart, and the damage of the witness comes from overlap alone.
C31_SerialUseIsSound ==
    [](dbState = "serial" /\ Quiet => SoundLeaf(Leaf))

\* C31 witness: two calls of Set with distinct keys have overlapped, both have
\* returned nil, and a key is lost or the page is no longer sound.
C31_Witness ==
    /\ dbState = "overlapped" /\ Quiet
    /\ BagCardinality(stored) = 2
    /\ NoRepeatedKey
    /\ ~SoundLeaf(Leaf)

\* The bytes (counted from 1) the documented layout gives to the field a
\* setter writes, and the offset of the first cell.
FieldBytes(layout, op) ==
    CASE op = "setIsRoot" -> 2..2
      [] op = "setParentIndex" ->
            (CASE layout = "current" -> 3..6
               [] layout = "headerField" -> 5..8
               [] layout = "structField" -> 9..12)
      [] op = "setNumCells" -> (IF layout = "current" THEN 7..10 ELSE 13..16)
      [] op = "setFreeSpace" -> 9..12
      [] OTHER -> {}

FirstCellOffsetOf(layout) ==
    IF layout = "current" THEN leafPageFirstCellOffset ELSE trackedFirstCellOffset

\* C32: in each of the three layouts a setter changes bytes of its own field
\* only, which lies between the kind tag and the first cell; so every getter
\* returns what was last written to its field (-1 for the parent index
\* included), and the kind tag and the cells stay as they were.
C32_HeaderFields ==
    /\ [](/\ isRoot(Leaf) = held.isRoot
          /\ getParentIndexIn(dbState, Leaf) = held.parentIndex
          /\ getNumCellsIn(dbState, Leaf) = held.numCells
          /\ (dbState = "headerField" => Uint32(Leaf, 8) = held.freeSpace)
          /\ getKind(Leaf) = pageKindLeaf)
    /\ [][\E d \in {pages'[1].cachedData} :
            /\ Len(d) = pageSize
            /\ \A i \in 1..pageSize :
                  d[i] # Leaf[i] =>
                     /\ i \in FieldBytes(dbState, last'.op)
                     /\ i > 1
                     /\ i <= FirstCellOffsetOf(dbState)]_vars

\* C32 witness: on a page with two cells the parent index -1 has been written
\* over another value, after the other fields were set.
C32_Witness ==
    /\ dbState = "structField"
    /\ opens = 2
    /\ last.op = "setParentIndex"
    /\ held = Written(FALSE, -1, 67305985, leafPageDefaultFreeSpace - 20)
    /\ getParentIndexStructField(Leaf) = -1

====
